---- MODULE Spec2Model ----
(***************************************************************************)
(* Model of the git-summarizer MCP server (src/src/main.rs, protocol.rs,   *)
(* git.rs): a line-delimited JSON-RPC loop over stdin/stdout with one      *)
(* process-wide configuration value and two version-control collaborators. *)
(***************************************************************************)
EXTENDS Naturals, Integers, Sequences, FiniteSets, TLC

(***************************************************************************)
(* Bounds of the model: the number of input lines the loop reads, under    *)
(* Spec and under SpecSession.                                             *)
(***************************************************************************)
MaxLines == 2
MaxSessionLines == 3

(***************************************************************************)
(* JSON values (serde_json::Value).  An object is a function from its keys *)
(* to values; a key that is absent is not in the function's domain.        *)
(***************************************************************************)
JNull == [t |-> "null"]
JBool(b) == [t |-> "bool", b |-> b]
JNum(n) == [t |-> "num", n |-> n]
JStr(s) == [t |-> "str", s |-> s]
JArr(a) == [t |-> "arr", a |-> a]
JObj(f) == [t |-> "obj", f |-> f]

\* A line of input that is not JSON text at all (includes the empty line).
InvalidJson == [t |-> "invalid"]

\* Option<T>
None == [some |-> FALSE]
Some(v) == [some |-> TRUE, v |-> v]

\* Result<T, E>
Ok(v) == [ok |-> TRUE, v |-> v]
Err(e) == [ok |-> FALSE, e |-> e]

\* Builds the function of an object from a set of <<key, value>> pairs.
Fields(pairs) == [k \in {p[1] : p \in pairs} |-> (CHOOSE p \in pairs : p[1] = k)[2]]

\* serde_json::Value::get(key): Some(member) on an object that has the key.
Get(v, k) == IF v.t = "obj" /\ k \in DOMAIN v.f THEN Some(v.f[k]) ELSE None

\* serde_json::Value::as_str
AsStr(v) == IF v.t = "str" THEN Some(v.s) ELSE None

\* Deserialization of a field of type Option<Value>: an absent member and a
\* JSON null both become None.
OptionField_KeepsNull(o) == o
OptionField(o) == IF o.some /\ o.v.t # "null" THEN Some(o.v) ELSE None

(***************************************************************************)
(* protocol.rs: the shapes requests and params are decoded into.           *)
(***************************************************************************)

\* JsonRpcRequest with method defaulting to the empty string when missing.
JsonRpcRequest_MethodDefault(l) ==
    IF l.t = "obj"
    THEN LET j == Get(l, "jsonrpc")
             m == Get(l, "method")
         IN IF j.some /\ AsStr(j.v).some
            THEN Ok([jsonrpc |-> j.v.s,
                     method |-> IF m.some /\ AsStr(m.v).some THEN m.v.s ELSE "",
                     params |-> OptionField(Get(l, "params")),
                     id |-> OptionField(Get(l, "id"))])
            ELSE Err("invalid request")
    ELSE Err("invalid request")

\* serde_json::from_str::<JsonRpcRequest>(&line).  The derived deserializer
\* takes a JSON object with string members jsonrpc and method (other members
\* ignored) or a JSON array of exactly the four fields in order.
JsonRpcRequest(l) ==
    IF l.t = "obj"
    THEN LET j == Get(l, "jsonrpc")
             m == Get(l, "method")
         IN IF j.some /\ m.some /\ AsStr(j.v).some /\ AsStr(m.v).some
            THEN Ok([jsonrpc |-> j.v.s, method |-> m.v.s,
                     params |-> OptionField(Get(l, "params")),
                     id |-> OptionField(Get(l, "id"))])
            ELSE Err("invalid request")
    ELSE IF l.t = "arr"
    THEN IF Len(l.a) = 4 /\ AsStr(l.a[1]).some /\ AsStr(l.a[2]).some
         THEN Ok([jsonrpc |-> l.a[1].s, method |-> l.a[2].s,
                  params |-> OptionField(Some(l.a[3])),
                  id |-> OptionField(Some(l.a[4]))])
         ELSE Err("invalid request")
    ELSE Err("invalid request")

\* serde_json::from_value::<CallToolParams>(v)
CallToolParams(v) ==
    IF v.t = "obj"
    THEN LET n == Get(v, "name")
         IN IF n.some /\ AsStr(n.v).some
            THEN Ok([name |-> n.v.s, arguments |-> OptionField(Get(v, "arguments"))])
            ELSE Err("invalid params")
    ELSE IF v.t = "arr"
    THEN IF Len(v.a) = 2 /\ AsStr(v.a[1]).some
         THEN Ok([name |-> v.a[1].s, arguments |-> OptionField(Some(v.a[2]))])
         ELSE Err("invalid params")
    ELSE Err("invalid params")

\* serde_json::from_value::<InitializeParams>(v): a flattened struct is read
\* from a JSON object only; every member other than options is ignored.
InitializeParams(v) ==
    IF v.t = "obj"
    THEN Ok([options |-> OptionField(Get(v, "options"))])
    ELSE Err("invalid params")

(***************************************************************************)
(* git.rs: the two collaborators, as functions of the repository they find.*)
(* repo.opens: Repository::open(".") succeeds; repo.staged: the patch text *)
(* of the index against HEAD; repo.commits: repo.commit(..) succeeds.      *)
(***************************************************************************)
NoStagedChanges == "no staged changes found"
RepoError == "could not find repository"
CommitError == "failed to create commit"
CommitId == "0a1b2c3"

GitHandler_get_staged_diff(repo) ==
    IF ~repo.opens THEN Err(RepoError)
    ELSE IF repo.staged = "" THEN Err(NoStagedChanges)
    ELSE Ok(repo.staged)

GitHandler_commit(message, repo) ==
    IF ~repo.opens THEN Err(RepoError)
    ELSE IF ~repo.commits THEN Err(CommitError)
    ELSE Ok("Commit successful: " \o CommitId)

Repos == [opens : BOOLEAN, staged : {"", "+line"}, commits : BOOLEAN]

(***************************************************************************)
(* main.rs: configuration, payloads and the request loop.                  *)
(***************************************************************************)

\* The built-in template CONFIG starts with (abridged text).
DefaultCommitFormat == "<type>[optional scope]: <english description> ... Influence: ..."

\* The fixed texts around the template in the get_staged_diff description.
DescriptionHead == "Get the staged changes (git diff --staged). ### Format: "
DescriptionTail == " ### Constraints: body lines of at most 80 characters."
ExecuteCommitDescription == "Commit. Call after the user confirmed the message."
UnknownToolText == "unknown tool"

InitializeResult ==
    JObj([protocolVersion |-> JStr("2024-11-05"),
          capabilities |-> JObj([tools |-> JObj([listChanged |-> JBool(TRUE)])]),
          serverInfo |-> JObj([name |-> JStr("git-summarizer"), version |-> JStr("0.1.0")])])

\* ToolsListResult with the built-in template in place of the current one.
ToolsListResult_Default(format_hint) ==
    JObj([tools |-> JArr(<<
        JObj([name |-> JStr("get_staged_diff"),
              description |-> JStr(DescriptionHead \o DefaultCommitFormat \o DescriptionTail),
              inputSchema |-> JObj([type |-> JStr("object"), properties |-> JObj(<<>>)])]),
        JObj([name |-> JStr("execute_commit"),
              description |-> JStr(ExecuteCommitDescription),
              inputSchema |-> JObj([type |-> JStr("object"),
                  properties |-> JObj([message |-> JObj([type |-> JStr("string"),
                                                         description |-> JStr("commit message")])]),
                  required |-> JArr(<<JStr("message")>>)])]) >>)])

\* The tools/list payload, built from the template read under the lock.
ToolsListResult(format_hint) ==
    JObj([tools |-> JArr(<<
        JObj([name |-> JStr("get_staged_diff"),
              description |-> JStr(DescriptionHead \o format_hint \o DescriptionTail),
              inputSchema |-> JObj([type |-> JStr("object"), properties |-> JObj(<<>>)])]),
        JObj([name |-> JStr("execute_commit"),
              description |-> JStr(ExecuteCommitDescription),
              inputSchema |-> JObj([type |-> JStr("object"),
                  properties |-> JObj([message |-> JObj([type |-> JStr("string"),
                                                         description |-> JStr("commit message")])]),
                  required |-> JArr(<<JStr("message")>>)])]) >>)])

\* json!({ "content": [{ "type": "text", "text": .. }] }), with isError on failure
ToolSuccess(text) ==
    JObj([content |-> JArr(<<JObj([type |-> JStr("text"), text |-> JStr(text)])>>)])

ToolFailure_NoFlag(text) == ToolSuccess(text)

ToolFailure(text) ==
    JObj([isError |-> JBool(TRUE),
          content |-> JArr(<<JObj([type |-> JStr("text"), text |-> JStr(text)])>>)])

MethodNotFoundPayload_WrongCode ==
    JObj([error |-> JObj([code |-> JNum(-32600), message |-> JStr("Invalid Request")])])

MethodNotFoundPayload ==
    JObj([error |-> JObj([code |-> JNum(-32601), message |-> JStr("Method not found")])])

\* InitializeFormat falling back to the built-in template.
InitializeFormat_OrDefault(params) ==
    IF ~params.some THEN Some(DefaultCommitFormat)
    ELSE LET parsed == InitializeParams(params.v)
         IN IF ~parsed.ok THEN Some(DefaultCommitFormat)
            ELSE IF ~parsed.v.options.some THEN Some(DefaultCommitFormat)
            ELSE LET format == Get(parsed.v.options.v, "commitFormat")
                 IN IF format.some /\ AsStr(format.v).some THEN AsStr(format.v)
                    ELSE Some(DefaultCommitFormat)

\* The commit format an initialize request supplies, if any.
InitializeFormat(params) ==
    IF ~params.some THEN None
    ELSE LET parsed == InitializeParams(params.v)
         IN IF ~parsed.ok THEN None
            ELSE IF ~parsed.v.options.some THEN None
            ELSE LET format == Get(parsed.v.options.v, "commitFormat")
                 IN IF format.some THEN AsStr(format.v) ELSE None

\* CommitMessage taking the JSON text of a message that is not a string.
CommitMessage_JsonText(arguments) ==
    IF ~arguments.some THEN ""
    ELSE LET m == Get(arguments.v, "message")
         IN IF m.some /\ AsStr(m.v).some THEN m.v.s ELSE "null"

\* The message execute_commit passes to the collaborator.
CommitMessage(arguments) ==
    IF ~arguments.some THEN ""
    ELSE LET m == Get(arguments.v, "message")
         IN IF m.some /\ AsStr(m.v).some THEN m.v.s ELSE ""

\* ResponseObj with the id not echoed.
ResponseObj_NullId(payload, id) ==
    LET error == Get(payload, "error")
    IN IF error.some
       THEN JObj([jsonrpc |-> JStr("2.0"), id |-> JNull, error |-> error.v])
       ELSE JObj([jsonrpc |-> JStr("2.0"), id |-> JNull, result |-> payload])

\* The response object written for a payload and an id.
ResponseObj(payload, id) ==
    LET error == Get(payload, "error")
    IN IF error.some
       THEN JObj([jsonrpc |-> JStr("2.0"), id |-> id, error |-> error.v])
       ELSE JObj([jsonrpc |-> JStr("2.0"), id |-> id, result |-> payload])

(***************************************************************************)
(* The input lines the model reads.                                        *)
(***************************************************************************)
Formats == {"X", "Y"}
IdValues == {JNum(7), JStr("a")}
\* An id member: left out, JSON null, or a value.
IdMembers == {{}, {<<"id", JNull>>}} \cup {{<<"id", i>>} : i \in IdValues}

Args(pairs) == {<<"arguments", JObj(Fields(pairs))>>}

InitializeParamsMembers ==
    {{}, {<<"params", JNull>>}, {<<"params", JStr("p")>>}, {<<"params", JObj(<<>>)>>},
     {<<"params", JObj([options |-> JNull])>>},
     {<<"params", JObj([options |-> JStr("o")])>>},
     {<<"params", JObj([options |-> JObj(<<>>)])>>},
     {<<"params", JObj([options |-> JObj([commitFormat |-> JNum(1)])])>>}}
    \cup {{<<"params", JObj([options |-> JObj([commitFormat |-> JStr(x)]),
                             clientInfo |-> JStr("c")])>>} : x \in Formats}

CallParamsMembers ==
    {{}, {<<"params", JNull>>}, {<<"params", JStr("p")>>}, {<<"params", JObj(<<>>)>>},
     {<<"params", JObj([name |-> JNum(1)])>>},
     {<<"params", JArr(<<JStr("get_staged_diff"), JNull>>)>>},
     {<<"params", JArr(<<JStr("get_staged_diff")>>)>>},
     {<<"params", JObj([name |-> JStr("get_staged_diff")])>>},
     {<<"params", JObj([name |-> JStr("no_such_tool")])>>}}
    \cup {{<<"params", JObj(Fields({<<"name", JStr("execute_commit")>>} \cup a))>>} :
            a \in {{}, {<<"arguments", JNull>>}, {<<"arguments", JStr("s")>>},
                   Args({}), Args({<<"message", JNum(1)>>}),
                   Args({<<"message", JStr("fix: m")>>})}}

Methods == {"initialize", "notifications/initialized", "tools/list", "tools/call", "ping"}

ParamsMembers(m) ==
    IF m = "initialize" THEN InitializeParamsMembers
    ELSE IF m = "tools/call" THEN CallParamsMembers
    ELSE {{}}

RequestLines ==
    {JObj(Fields({<<"jsonrpc", JStr("2.0")>>, <<"method", JStr(m[1])>>} \cup m[2] \cup i)) :
        m \in UNION {{<<n, p>> : p \in ParamsMembers(n)} : n \in Methods}, i \in IdMembers}

OtherLines ==
    {InvalidJson, JNum(1),
     JObj([method |-> JStr("tools/list"), id |-> JNum(7)]),
     JObj([jsonrpc |-> JStr("2.0"), id |-> JNum(7)]),
     JObj([jsonrpc |-> JStr("2.0"), method |-> JNum(1), id |-> JNum(7)]),
     JArr(<<JStr("2.0"), JStr("tools/list"), JNull, JNum(7)>>)}

Lines == RequestLines \cup OtherLines

(***************************************************************************)
(* State.                                                                  *)
(***************************************************************************)
VARIABLES
    pc,               \* where main is: "read", "dispatch", "initialize_locked",
                      \* "tools_list_locked", "respond", "exit"
    nread,            \* number of lines taken from stdin so far
    line,             \* the line read last
    request,          \* Some(decoded request) of that line, or None
    response_payload, \* Option: the payload the dispatcher produced
    CONFIG,           \* the process-wide ServerConfig
    config_lock,      \* TRUE while a guard of the CONFIG mutex is alive
    stdout,           \* response lines written, each with the input line it answers
    calls,            \* collaborator invocations (function, message, outcome), each
                      \* with the input line it serves
    exit_result,      \* how main returned: "running", "Ok", "Err(params)", "Err(io)"
    supplied          \* history: per line read, the commit format it supplied

vars == <<pc, nread, line, request, response_payload, CONFIG, config_lock, stdout,
          calls, exit_result, supplied>>

\* The string at params.options.commitFormat of an initialize request.
SuppliedFormat(req) ==
    IF /\ req.some
       /\ req.v.method = "initialize"
       /\ req.v.params.some
       /\ req.v.params.v.t = "obj"
       /\ "options" \in DOMAIN req.v.params.v.f
       /\ req.v.params.v.f.options.t = "obj"
       /\ "commitFormat" \in DOMAIN req.v.params.v.f.options.f
       /\ req.v.params.v.f.options.f.commitFormat.t = "str"
    THEN Some(req.v.params.v.f.options.f.commitFormat.s)
    ELSE None

Init ==
    /\ pc = "read"
    /\ nread = 0
    /\ line = InvalidJson
    /\ request = None
    /\ response_payload = None
    /\ CONFIG = [commit_format |-> DefaultCommitFormat]
    /\ config_lock = FALSE
    /\ stdout = <<>>
    /\ calls = <<>>
    /\ exit_result = "running"
    /\ supplied = <<>>

\* Read taking the next line while the response to the last one is still to
\* be written.
Read_Ahead(input, max) ==
    /\ pc \in {"read", "respond"}
    /\ nread < max
    /\ \E l \in input :
        LET decoded == JsonRpcRequest(l)
            req == IF decoded.ok THEN Some(decoded.v) ELSE None
        IN /\ line' = l
           /\ request' = req
           /\ pc' = IF decoded.ok THEN "dispatch" ELSE "read"
           /\ supplied' = Append(supplied, SuppliedFormat(req))
    /\ nread' = nread + 1
    /\ response_payload' = None
    /\ UNCHANGED <<CONFIG, config_lock, stdout, calls, exit_result>>

\* lines.next() yields a line; it is decoded, and a line that does not decode
\* is logged and skipped (continue).
Read(input, max) ==
    /\ pc = "read"
    /\ nread < max
    /\ \E l \in input :
        LET decoded == JsonRpcRequest(l)
            req == IF decoded.ok THEN Some(decoded.v) ELSE None
        IN /\ line' = l
           /\ request' = req
           /\ pc' = IF decoded.ok THEN "dispatch" ELSE "read"
           /\ supplied' = Append(supplied, SuppliedFormat(req))
    /\ nread' = nread + 1
    /\ response_payload' = None
    /\ UNCHANGED <<CONFIG, config_lock, stdout, calls, exit_result>>

ReadLine == Read(Lines, MaxLines)

\* lines.next() yields None (end of input) or a read error: the loop ends and
\* main returns Ok(()).
EndOfInput ==
    /\ pc = "read"
    /\ pc' = "exit"
    /\ exit_result' = "Ok"
    /\ UNCHANGED <<nread, line, request, response_payload, CONFIG, config_lock, stdout,
                   calls, supplied>>

\* Initialize storing the override only for requests that carry an id.
Initialize_RequestsOnly ==
    /\ pc = "dispatch"
    /\ request.v.method = "initialize"
    /\ IF InitializeFormat(request.v.params).some /\ request.v.id.some
       THEN /\ ~config_lock
            /\ config_lock' = TRUE
            /\ pc' = "initialize_locked"
            /\ UNCHANGED response_payload
       ELSE /\ response_payload' = Some(InitializeResult)
            /\ pc' = "respond"
            /\ UNCHANGED config_lock
    /\ UNCHANGED <<nread, line, request, CONFIG, stdout, calls, exit_result, supplied>>

\* "initialize": the params are parsed; with a commitFormat string in them the
\* CONFIG mutex is locked (the thread waits while it is held), without one the
\* arm goes straight to its result.
Initialize ==
    /\ pc = "dispatch"
    /\ request.v.method = "initialize"
    /\ IF InitializeFormat(request.v.params).some
       THEN /\ ~config_lock
            /\ config_lock' = TRUE
            /\ pc' = "initialize_locked"
            /\ UNCHANGED response_payload
       ELSE /\ response_payload' = Some(InitializeResult)
            /\ pc' = "respond"
            /\ UNCHANGED config_lock
    /\ UNCHANGED <<nread, line, request, CONFIG, stdout, calls, exit_result, supplied>>

\* InitializeStore taking an override only while the template is the default.
InitializeStore_Once ==
    /\ pc = "initialize_locked"
    /\ CONFIG' = IF CONFIG.commit_format = DefaultCommitFormat
                 THEN [CONFIG EXCEPT !.commit_format = InitializeFormat(request.v.params).v]
                 ELSE CONFIG
    /\ config_lock' = FALSE
    /\ response_payload' = Some(InitializeResult)
    /\ pc' = "respond"
    /\ UNCHANGED <<nread, line, request, stdout, calls, exit_result, supplied>>

\* "initialize", under the lock: the format is stored, the guard is dropped at
\* the end of its block and the arm yields its result.
InitializeStore ==
    /\ pc = "initialize_locked"
    /\ CONFIG' = [CONFIG EXCEPT !.commit_format = InitializeFormat(request.v.params).v]
    /\ config_lock' = FALSE
    /\ response_payload' = Some(InitializeResult)
    /\ pc' = "respond"
    /\ UNCHANGED <<nread, line, request, stdout, calls, exit_result, supplied>>

\* NotificationsInitialized acknowledging with an empty result.
NotificationsInitialized_Acknowledges ==
    /\ pc = "dispatch"
    /\ request.v.method = "notifications/initialized"
    /\ response_payload' = Some(JObj(<<>>))
    /\ pc' = "respond"
    /\ UNCHANGED <<nread, line, request, CONFIG, config_lock, stdout, calls, exit_result,
                   supplied>>

\* "notifications/initialized"
NotificationsInitialized ==
    /\ pc = "dispatch"
    /\ request.v.method = "notifications/initialized"
    /\ response_payload' = None
    /\ pc' = "respond"
    /\ UNCHANGED <<nread, line, request, CONFIG, config_lock, stdout, calls, exit_result,
                   supplied>>

\* ToolsList going on to read the configuration without locking the mutex.
ToolsList_Unlocked ==
    /\ pc = "dispatch"
    /\ request.v.method = "tools/list"
    /\ pc' = "tools_list_locked"
    /\ UNCHANGED <<nread, line, request, response_payload, CONFIG, config_lock, stdout,
                   calls, exit_result, supplied>>

\* "tools/list": the CONFIG mutex is locked (the thread waits while it is held).
ToolsList ==
    /\ pc = "dispatch"
    /\ request.v.method = "tools/list"
    /\ ~config_lock
    /\ config_lock' = TRUE
    /\ pc' = "tools_list_locked"
    /\ UNCHANGED <<nread, line, request, response_payload, CONFIG, stdout, calls,
                   exit_result, supplied>>

\* ToolsListBuild putting the built-in template back after the listing.
ToolsListBuild_ResetsFormat ==
    /\ pc = "tools_list_locked"
    /\ response_payload' = Some(ToolsListResult(CONFIG.commit_format))
    /\ CONFIG' = [CONFIG EXCEPT !.commit_format = DefaultCommitFormat]
    /\ config_lock' = FALSE
    /\ pc' = "respond"
    /\ UNCHANGED <<nread, line, request, stdout, calls, exit_result, supplied>>

\* "tools/list", under the lock: the template is read and the catalog built
\* from it; the guard is dropped at the end of the arm.
ToolsListBuild ==
    /\ pc = "tools_list_locked"
    /\ response_payload' = Some(ToolsListResult(CONFIG.commit_format))
    /\ config_lock' = FALSE
    /\ pc' = "respond"
    /\ UNCHANGED <<nread, line, request, CONFIG, stdout, calls, exit_result, supplied>>

\* ToolCall reporting an unknown tool as a transport error.
ToolCall_UnknownAsError(params, repo) ==
    IF params.name = "get_staged_diff"
    THEN LET r == GitHandler_get_staged_diff(repo)
         IN [result |-> IF r.ok THEN ToolSuccess(r.v) ELSE ToolFailure(r.e),
             invoked |-> <<[fn |-> "get_staged_diff", message |-> "", outcome |-> r]>>]
    ELSE IF params.name = "execute_commit"
    THEN LET msg == CommitMessage(params.arguments)
             r == GitHandler_commit(msg, repo)
         IN [result |-> IF r.ok THEN ToolSuccess(r.v) ELSE ToolFailure(r.e),
             invoked |-> <<[fn |-> "commit", message |-> msg, outcome |-> r]>>]
    ELSE [result |-> JObj([error |-> JObj([code |-> JNum(-32602),
                                           message |-> JStr(UnknownToolText)])]),
          invoked |-> <<>>]

\* The tool executor: the envelope and the collaborator invocations of a
\* parsed tools/call, given the repository the collaborator finds.
ToolCall(params, repo) ==
    IF params.name = "get_staged_diff"
    THEN LET r == GitHandler_get_staged_diff(repo)
         IN [result |-> IF r.ok THEN ToolSuccess(r.v) ELSE ToolFailure(r.e),
             invoked |-> <<[fn |-> "get_staged_diff", message |-> "", outcome |-> r]>>]
    ELSE IF params.name = "execute_commit"
    THEN LET msg == CommitMessage(params.arguments)
             r == GitHandler_commit(msg, repo)
         IN [result |-> IF r.ok THEN ToolSuccess(r.v) ELSE ToolFailure(r.e),
             invoked |-> <<[fn |-> "commit", message |-> msg, outcome |-> r]>>]
    ELSE [result |-> ToolFailure(UnknownToolText), invoked |-> <<>>]

\* ToolsCall skipping a request whose params do not parse.
ToolsCall_SkipsBadParams ==
    /\ pc = "dispatch"
    /\ request.v.method = "tools/call"
    /\ LET parsed == CallToolParams(IF request.v.params.some THEN request.v.params.v ELSE JNull)
       IN IF ~parsed.ok
          THEN /\ pc' = "read"
               /\ UNCHANGED <<response_payload, calls, exit_result>>
          ELSE \E repo \in Repos :
                LET done == ToolCall(parsed.v, repo)
                IN /\ response_payload' = Some(done.result)
                   /\ calls' = calls \o [k \in 1..Len(done.invoked) |->
                                   [ln |-> nread, fn |-> done.invoked[k].fn,
                                    message |-> done.invoked[k].message,
                                    outcome |-> done.invoked[k].outcome]]
                   /\ pc' = "respond"
                   /\ UNCHANGED exit_result
    /\ UNCHANGED <<nread, line, request, CONFIG, config_lock, stdout, supplied>>

\* "tools/call": params that do not parse make main return the error (?).
ToolsCall ==
    /\ pc = "dispatch"
    /\ request.v.method = "tools/call"
    /\ LET parsed == CallToolParams(IF request.v.params.some THEN request.v.params.v ELSE JNull)
       IN IF ~parsed.ok
          THEN /\ pc' = "exit"
               /\ exit_result' = "Err(params)"
               /\ UNCHANGED <<response_payload, calls>>
          ELSE \E repo \in Repos :
                LET done == ToolCall(parsed.v, repo)
                IN /\ response_payload' = Some(done.result)
                   /\ calls' = calls \o [k \in 1..Len(done.invoked) |->
                                   [ln |-> nread, fn |-> done.invoked[k].fn,
                                    message |-> done.invoked[k].message,
                                    outcome |-> done.invoked[k].outcome]]
                   /\ pc' = "respond"
                   /\ UNCHANGED exit_result
    /\ UNCHANGED <<nread, line, request, CONFIG, config_lock, stdout, supplied>>

\* any other method
MethodNotFound ==
    /\ pc = "dispatch"
    /\ request.v.method \notin {"initialize", "notifications/initialized", "tools/list", "tools/call"}
    /\ response_payload' = IF ~request.v.id.some THEN None ELSE Some(MethodNotFoundPayload)
    /\ pc' = "respond"
    /\ UNCHANGED <<nread, line, request, CONFIG, config_lock, stdout, calls, exit_result,
                   supplied>>

\* ResponseLine answering a request without id with a null id.
ResponseLine_NullForNotification(payload, id) ==
    IF payload.some
    THEN Some(ResponseObj(payload.v, IF id.some THEN id.v ELSE JNull))
    ELSE None

\* The response line, if one is written: a payload and an id are both there.
ResponseLine(payload, id) ==
    IF payload.some /\ id.some THEN Some(ResponseObj(payload.v, id.v)) ELSE None

\* The response is assembled, printed and flushed; a failed write ends main.
Respond ==
    /\ pc = "respond"
    /\ IF ResponseLine(response_payload, request.v.id).some
       THEN \E written \in BOOLEAN :
              IF written
              THEN /\ stdout' = Append(stdout, [ln |-> nread,
                                     obj |-> ResponseLine(response_payload, request.v.id).v])
                   /\ pc' = "read"
                   /\ UNCHANGED exit_result
              ELSE /\ pc' = "exit"
                   /\ exit_result' = "Err(io)"
                   /\ UNCHANGED stdout
       ELSE /\ pc' = "read"
            /\ UNCHANGED <<stdout, exit_result>>
    /\ UNCHANGED <<nread, line, request, response_payload, CONFIG, config_lock, calls,
                   supplied>>

Next ==
    \/ ReadLine
    \/ EndOfInput
    \/ Initialize
    \/ InitializeStore
    \/ NotificationsInitialized
    \/ ToolsList
    \/ ToolsListBuild
    \/ ToolsCall
    \/ MethodNotFound
    \/ Respond

Spec == Init /\ [][Next]_vars

(***************************************************************************)
(* The same loop over longer inputs drawn from a smaller set of lines, for *)
(* the properties that speak of a sequence of requests.                    *)
(***************************************************************************)
SessionLines ==
    {l \in RequestLines :
        /\ "id" \in DOMAIN l.f => l.f.id = JNum(7)
        /\ "params" \in DOMAIN l.f =>
              l.f.params \in {JObj([options |-> JObj(<<>>)]),
                              JObj([name |-> JStr("get_staged_diff")])}
                             \cup {JObj([options |-> JObj([commitFormat |-> JStr(x)]),
                                         clientInfo |-> JStr("c")]) : x \in Formats}}
    \cup {InvalidJson}

ReadSessionLine == Read(SessionLines, MaxSessionLines)

NextSession ==
    \/ ReadSessionLine
    \/ EndOfInput
    \/ Initialize
    \/ InitializeStore
    \/ NotificationsInitialized
    \/ ToolsList
    \/ ToolsListBuild
    \/ ToolsCall
    \/ MethodNotFound
    \/ Respond

SpecSession == Init /\ [][NextSession]_vars

(***************************************************************************)
(* Vocabulary of the properties: what the line read last says, and what    *)
(* was written and invoked for it.                                         *)
(***************************************************************************)

\* The line is a JSON object with string members jsonrpc and method.
WellFormed(l) ==
    /\ l.t = "obj"
    /\ "jsonrpc" \in DOMAIN l.f /\ l.f.jsonrpc.t = "str"
    /\ "method" \in DOMAIN l.f /\ l.f.method.t = "str"

HasId(l) == "id" \in DOMAIN l.f
HasValueId(l) == HasId(l) /\ l.f.id.t # "null"
MethodIs(l, m) == WellFormed(l) /\ l.f.method.s = m
KnownMethods == {"initialize", "notifications/initialized", "tools/list", "tools/call"}

\* The params member of the line as tools/call reads it.
CallParamsOf(l) == CallToolParams(IF "params" \in DOMAIN l.f THEN l.f.params ELSE JNull)

\* Responses written and collaborator invocations made for input line k.
Answers(k) == {i \in 1..Len(stdout) : stdout[i].ln = k}
Invocations(k) == {i \in 1..Len(calls) : calls[i].ln = k}

\* The handling of the line read last is over, and no write failed.
Handled == nread > 0 /\ pc \in {"read", "exit"} /\ exit_result # "Err(io)"

\* C1 (as stated): every well-formed request carrying an id member, whatever
\* its method and id value, gets exactly one response line, with that id.
C1_Original ==
    (Handled /\ WellFormed(line) /\ HasId(line)) =>
        /\ Cardinality(Answers(nread)) = 1
        /\ \A i \in Answers(nread) : stdout[i].obj.f.id = line.f.id

\* C1 (amended): a well-formed request with a non-null id gets exactly one
\* response line, with that id, when its method is initialize, tools/list,
\* tools/call with params that parse, or an unknown method; it gets none when
\* its method is notifications/initialized or tools/call with params that do
\* not parse.  No response is written before the handling reaches its end.
C1_OneResponsePerRequest ==
    /\ (pc \notin {"read", "exit"} => Answers(nread) = {})
    /\ (Handled /\ WellFormed(line) /\ HasValueId(line)) =>
          /\ \A i \in Answers(nread) : stdout[i].obj.f.id = line.f.id
          /\ Cardinality(Answers(nread)) =
                IF \/ MethodIs(line, "notifications/initialized")
                   \/ (MethodIs(line, "tools/call") /\ ~CallParamsOf(line).ok)
                THEN 0 ELSE 1

C1_Witness ==
    /\ Handled /\ nread = 2
    /\ MethodIs(line, "tools/call") /\ HasId(line) /\ line.f.id = JStr("a")
    /\ \E i \in Answers(2) : stdout[i].obj.f.id = JStr("a")
    /\ \E j \in Answers(1) : stdout[j].obj.f.id = JNum(7)

\* C2: a well-formed request without an id member never gets a response line,
\* whatever its method and whatever the collaborator returns.
C2_NotificationsGetNoResponse ==
    (nread > 0 /\ WellFormed(line) /\ ~HasId(line)) => Answers(nread) = {}

C2_Witness ==
    /\ Handled /\ pc = "read"
    /\ MethodIs(line, "tools/call") /\ ~HasId(line)
    /\ Invocations(nread) # {}
    /\ Answers(nread) = {}

\* s contains sub as a substring.
Contains(s, sub) == \E i \in 0..(Len(s) - Len(sub)) : SubSeq(s, i + 1, i + Len(sub)) = sub

\* The commit format the input so far asks for: the one supplied by the latest
\* initialize that supplied one, the built-in default if none did.
SuppliedAt == {k \in 1..Len(supplied) : supplied[k].some}
LatestSupplied ==
    IF SuppliedAt = {} THEN DefaultCommitFormat
    ELSE supplied[CHOOSE k \in SuppliedAt : \A j \in SuppliedAt : j <= k].v

\* C3: every tools/list answered describes get_staged_diff with the commit
\* format of the latest initialize that supplied one, however many other
\* requests came in between, and with the built-in default if none did.
C3_CatalogFollowsConfiguration ==
    (Handled /\ MethodIs(line, "tools/list") /\ HasValueId(line)) =>
        \E i \in Answers(nread) :
            LET tools == stdout[i].obj.f.result.f.tools.a
            IN \E t \in 1..Len(tools) :
                  /\ tools[t].f.name = JStr("get_staged_diff")
                  /\ Contains(tools[t].f.description.s, LatestSupplied)

C3_Witness ==
    /\ Handled /\ nread = 3
    /\ supplied[1] = Some("X")
    /\ Invocations(2) # {}
    /\ MethodIs(line, "tools/list")
    /\ \E i \in Answers(3) :
          Contains(stdout[i].obj.f.result.f.tools.a[1].f.description.s, "X")

\* C4 (as stated): no request is fatal: main ends only at the end of input or
\* when writing standard output fails.
C4_NoRequestIsFatal == exit_result \in {"running", "Ok", "Err(io)"}

\* The tool named by a tools/call line whose params parse.
CallsTool(l, names) ==
    MethodIs(l, "tools/call") /\ CallParamsOf(l).ok /\ CallParamsOf(l).v.name \in names
ToolNames == {"get_staged_diff", "execute_commit"}
AllToolNames == {"get_staged_diff", "execute_commit", "no_such_tool"}

\* C5: a tools/call with an id naming neither tool is answered by a result
\* that is an envelope with isError true and the one fixed text item, never
\* by an error member, and no collaborator is invoked for it.
C5_UnknownToolIsAResult ==
    (nread > 0 /\ CallsTool(line, AllToolNames \ ToolNames)) =>
        /\ Invocations(nread) = {}
        /\ (Handled /\ HasValueId(line)) =>
              /\ Cardinality(Answers(nread)) = 1
              /\ \A i \in Answers(nread) :
                    /\ DOMAIN stdout[i].obj.f = {"jsonrpc", "id", "result"}
                    /\ stdout[i].obj.f.result =
                          JObj([isError |-> JBool(TRUE),
                                content |-> JArr(<<JObj([type |-> JStr("text"),
                                                         text |-> JStr(UnknownToolText)])>>)])

C5_Witness ==
    /\ Handled /\ CallsTool(line, {"no_such_tool"}) /\ HasValueId(line)
    /\ \E i \in Answers(nread) : stdout[i].obj.f.result.f.isError = JBool(TRUE)
    /\ Invocations(nread) = {}

\* C6: a tools/call naming get_staged_diff or execute_commit invokes that
\* collaborator exactly once; with an id, its outcome is answered by a result
\* and never by an error member: on success an envelope without isError whose
\* one text is the collaborator's text, on failure an envelope with isError
\* true whose one text is the failure message.  A get_staged_diff that finds
\* nothing staged fails, and no collaborator outcome makes main return.
C6_CollaboratorOutcomeIsAResult ==
    (nread > 0 /\ CallsTool(line, ToolNames)) =>
        /\ exit_result \in {"running", "Ok", "Err(io)"}
        /\ Cardinality(Invocations(nread)) = IF pc = "dispatch" THEN 0 ELSE 1
        /\ \A c \in Invocations(nread) :
              /\ calls[c].fn = IF CallsTool(line, {"execute_commit"})
                               THEN "commit" ELSE "get_staged_diff"
              /\ (calls[c].fn = "get_staged_diff" /\ calls[c].outcome.ok)
                    => calls[c].outcome.v # ""
              /\ (Handled /\ HasValueId(line)) =>
                    /\ Cardinality(Answers(nread)) = 1
                    /\ \A i \in Answers(nread) :
                          /\ DOMAIN stdout[i].obj.f = {"jsonrpc", "id", "result"}
                          /\ stdout[i].obj.f.result =
                               IF calls[c].outcome.ok
                               THEN JObj([content |-> JArr(<<JObj([type |-> JStr("text"),
                                              text |-> JStr(calls[c].outcome.v)])>>)])
                               ELSE JObj([isError |-> JBool(TRUE),
                                          content |-> JArr(<<JObj([type |-> JStr("text"),
                                              text |-> JStr(calls[c].outcome.e)])>>)])

C6_Witness ==
    /\ Handled /\ pc = "read"
    /\ CallsTool(line, {"get_staged_diff"}) /\ HasValueId(line)
    /\ \E c \in Invocations(nread) : calls[c].outcome = Err(NoStagedChanges)
    /\ \E i \in Answers(nread) :
          /\ stdout[i].obj.f.result.f.isError = JBool(TRUE)
          /\ stdout[i].obj.f.result.f.content.a[1].f.text = JStr(NoStagedChanges)

\* C7: while a request with a method outside the four known ones is handled,
\* the configuration is unchanged and no collaborator is invoked; with an id
\* the one line written for it carries error {code: -32601, message: "Method
\* not found"} and no result, without an id nothing is written.
UnknownMethod(l) == WellFormed(l) /\ l.f.method.s \notin KnownMethods

C7_MethodNotFound ==
    [][(nread > 0 /\ UnknownMethod(line) /\ pc \in {"dispatch", "respond"}) =>
          /\ CONFIG' = CONFIG
          /\ calls' = calls
          /\ pc = "dispatch" => stdout' = stdout /\ pc' = "respond"
          /\ pc = "respond" =>
                IF HasValueId(line)
                THEN \/ /\ pc' = "read"
                        /\ stdout' = Append(stdout, [ln |-> nread, obj |->
                               JObj([jsonrpc |-> JStr("2.0"), id |-> line.f.id,
                                     error |-> JObj([code |-> JNum(-32601),
                                                     message |-> JStr("Method not found")])])])
                     \/ exit_result' = "Err(io)" /\ stdout' = stdout
                ELSE stdout' = stdout /\ pc' = "read"]_vars

C7_Witness ==
    /\ Handled /\ pc = "read"
    /\ UnknownMethod(line) /\ HasId(line) /\ line.f.id = JStr("a")
    /\ \E i \in Answers(nread) :
          /\ stdout[i].obj.f.error.f.code = JNum(-32601)
          /\ "result" \notin DOMAIN stdout[i].obj.f

\* C8 (as stated): the template is the built-in default until the first
\* initialize that supplies an override, takes that override, and is not
\* changed by later initialize calls.
EarliestSupplied ==
    IF SuppliedAt = {} THEN DefaultCommitFormat
    ELSE supplied[CHOOSE k \in SuppliedAt : \A j \in SuppliedAt : k <= j].v

C8_Original ==
    pc \notin {"dispatch", "initialize_locked"} => CONFIG.commit_format = EarliestSupplied

\* C8 (amended): the template is the built-in default until an initialize
\* supplies an override, and after that it is the override of the latest
\* initialize that supplied one: every such call replaces it.
C8_LatestOverrideWins ==
    pc \notin {"dispatch", "initialize_locked"} => CONFIG.commit_format = LatestSupplied

C8_Witness ==
    /\ pc = "read" /\ nread = 3
    /\ supplied[1] = Some("X") /\ supplied[2] = None /\ supplied[3] = Some("Y")
    /\ CONFIG.commit_format = "Y"

\* C9: a line that is not a request (not JSON, not an object, or an object
\* without string members jsonrpc and method) is dropped when read: nothing
\* is written, the configuration is unchanged, no collaborator is invoked,
\* main does not return, and the next step of the loop is the next read.
NotARequest(l) == l.t \notin {"obj", "arr"} \/ (l.t = "obj" /\ ~WellFormed(l))

C9_MalformedLineIsDropped ==
    [][/\ (nread' = nread + 1 /\ NotARequest(line')) =>
            /\ pc' = "read"
            /\ UNCHANGED <<CONFIG, stdout, calls, exit_result>>
       /\ (nread > 0 /\ NotARequest(line)) =>
            \/ nread' = nread + 1
            \/ pc' = "exit" /\ exit_result' = "Ok" /\ UNCHANGED <<CONFIG, stdout, calls>>]_vars

C9_Witness ==
    /\ pc = "read" /\ nread = 2
    /\ line.t = "obj" /\ "method" \notin DOMAIN line.f /\ HasId(line)
    /\ Answers(1) # {} /\ Answers(2) = {} /\ Invocations(2) = {}

\* C10: a tools/call naming execute_commit invokes the commit collaborator
\* once, with arguments.message when that is a string and with the empty
\* string when arguments is absent, has no message or has a message that is
\* not a string.
MessageOf(l) ==
    LET a == CallParamsOf(l).v.arguments
    IN IF /\ a.some
          /\ a.v.t = "obj"
          /\ "message" \in DOMAIN a.v.f
          /\ a.v.f.message.t = "str"
       THEN a.v.f.message.s
       ELSE ""

C10_CommitMessagePassedThrough ==
    (nread > 0 /\ CallsTool(line, {"execute_commit"}) /\ pc # "dispatch") =>
        /\ exit_result # "Err(params)"
        /\ Cardinality(Invocations(nread)) = 1
        /\ \A c \in Invocations(nread) :
              calls[c].fn = "commit" /\ calls[c].message = MessageOf(line)

C10_Witness ==
    /\ pc = "read" /\ nread = 2
    /\ CallsTool(line, {"execute_commit"})
    /\ CallParamsOf(line).v.arguments = Some(JObj([message |-> JNum(1)]))
    /\ \E c \in Invocations(2) : calls[c].fn = "commit" /\ calls[c].message = ""
    /\ \E c \in Invocations(1) : calls[c].fn = "commit" /\ calls[c].message = "fix: m"

\* The line read last is being handled: it was decoded and its handling has
\* not reached its end.
InFlight == nread > 0 /\ pc \notin {"read", "exit"}

\* C11: while a notifications/initialized request is handled, with or without
\* an id, nothing is written to the output and the configuration is unchanged.
C11_InitializedNotificationIsSilent ==
    [][(InFlight /\ MethodIs(line, "notifications/initialized")) =>
          /\ stdout' = stdout
          /\ CONFIG' = CONFIG
          /\ pc' \in {"respond", "read"}]_vars

C11_Witness ==
    /\ Handled /\ pc = "read" /\ nread = 2
    /\ MethodIs(line, "notifications/initialized") /\ HasValueId(line)
    /\ supplied[1] = Some("X") /\ CONFIG.commit_format = "X"
    /\ Answers(1) # {} /\ Answers(2) = {}

\* C12 (as stated): a tools/call whose params are absent, are not an object,
\* or have no string name makes main return the parse error; no collaborator
\* is invoked and no response line is written for it.
ParamsRejected ==
    /\ Invocations(nread) = {}
    /\ Answers(nread) = {}
    /\ pc # "dispatch" => (pc = "exit" /\ exit_result = "Err(params)")

C12_Original ==
    (nread > 0 /\ MethodIs(line, "tools/call") /\
       (\/ "params" \notin DOMAIN line.f
        \/ line.f.params.t # "obj"
        \/ "name" \notin DOMAIN line.f.params.f
        \/ line.f.params.f.name.t # "str")) => ParamsRejected

\* C12 (amended): the same holds of a tools/call whose params are absent, are
\* neither an object nor an array, are an object without a string name, or
\* are an array that is not a string followed by one more element; an array
\* of a string name and the arguments parses like the object does.
NoCallParams(l) ==
    \/ "params" \notin DOMAIN l.f
    \/ l.f.params.t \notin {"obj", "arr"}
    \/ /\ l.f.params.t = "obj"
       /\ ("name" \notin DOMAIN l.f.params.f \/ l.f.params.f.name.t # "str")
    \/ /\ l.f.params.t = "arr"
       /\ (Len(l.f.params.a) # 2 \/ l.f.params.a[1].t # "str")

C12_BadCallParamsEndMain ==
    /\ (nread > 0 /\ MethodIs(line, "tools/call") /\ NoCallParams(line)) => ParamsRejected
    /\ (nread > 0 /\ MethodIs(line, "tools/call") /\ ~NoCallParams(line) /\ pc # "dispatch")
          => (exit_result # "Err(params)" /\ response_payload # None)

C12_Witness ==
    /\ pc = "exit" /\ exit_result = "Err(params)" /\ nread = 2
    /\ MethodIs(line, "tools/call") /\ HasValueId(line)
    /\ "params" \in DOMAIN line.f /\ line.f.params = JObj([name |-> JNum(1)])
    /\ Answers(1) # {} /\ Answers(2) = {} /\ Invocations(2) = {}

\* C13: the output grows only by one line at a time, written for the line read
\* last and at most once for it; a line is read only when the handling of the
\* line before it is over, its response written; so the responses are on the
\* output in the order of the lines they answer.
C13_Sequential ==
    [][/\ nread' # nread =>
            /\ nread' = nread + 1
            /\ pc = "read"
            /\ stdout' = stdout
       /\ stdout' # stdout =>
            /\ pc = "respond" /\ pc' = "read"
            /\ nread' = nread
            /\ response_payload # None
            /\ Len(stdout') = Len(stdout) + 1
            /\ SubSeq(stdout', 1, Len(stdout)) = stdout
            /\ stdout'[Len(stdout')].ln = nread
            /\ \A i \in 1..Len(stdout) : stdout[i].ln < nread
       /\ (pc = "respond" /\ response_payload # None /\ request.v.id # None) =>
            (stdout' # stdout \/ exit_result' = "Err(io)")]_vars

C13_Witness ==
    /\ pc = "read" /\ nread = 2 /\ Len(stdout) = 2
    /\ stdout[1].ln = 1 /\ stdout[1].obj.f.id = JStr("a")
    /\ stdout[2].ln = 2 /\ stdout[2].obj.f.id = JNum(7)

\* C14: the handling of an initialize request leaves the template equal to V
\* when params is an object whose options is an object whose commitFormat is
\* the string V, and as it was in every other case (params absent, null or
\* not an object, options absent or not an object, commitFormat absent or not
\* a string); in all cases the payload, and the result written when the
\* request has an id, is the same fixed object.
FormatIn(l) ==
    IF /\ "params" \in DOMAIN l.f
       /\ l.f.params.t = "obj"
       /\ "options" \in DOMAIN l.f.params.f
       /\ l.f.params.f.options.t = "obj"
       /\ "commitFormat" \in DOMAIN l.f.params.f.options.f
       /\ l.f.params.f.options.f.commitFormat.t = "str"
    THEN Some(l.f.params.f.options.f.commitFormat.s)
    ELSE None

FixedInitializeResult ==
    JObj([protocolVersion |-> JStr("2024-11-05"),
          capabilities |-> JObj([tools |-> JObj([listChanged |-> JBool(TRUE)])]),
          serverInfo |-> JObj([name |-> JStr("git-summarizer"), version |-> JStr("0.1.0")])])

C14_InitializeOverwrite ==
    [][(InFlight /\ MethodIs(line, "initialize")) =>
          /\ pc' = "respond" =>
                /\ CONFIG'.commit_format = IF FormatIn(line).some THEN FormatIn(line).v
                                           ELSE CONFIG.commit_format
                /\ response_payload' = Some(FixedInitializeResult)
          /\ pc' # "respond" => CONFIG' = CONFIG
          /\ (pc = "respond" /\ HasValueId(line)) =>
                \/ stdout' = Append(stdout, [ln |-> nread, obj |->
                       JObj([jsonrpc |-> JStr("2.0"), id |-> line.f.id,
                             result |-> FixedInitializeResult])])
                \/ exit_result' = "Err(io)"]_vars

C14_Witness ==
    /\ Handled /\ pc = "read" /\ nread = 2
    /\ supplied[1] = Some("X")
    /\ MethodIs(line, "initialize") /\ HasValueId(line)
    /\ "params" \in DOMAIN line.f
    /\ line.f.params = JObj([options |-> JObj([commitFormat |-> JNum(1)])])
    /\ CONFIG.commit_format = "X"
    /\ \E i \in Answers(2) : stdout[i].obj.f.result = FixedInitializeResult

\* C15: the template changes only in the handling of an initialize request;
\* and the line written for any other request is a function of that request,
\* the template and the outcome of the collaborator invoked for it, whatever
\* was read, written and invoked before.
ExpectedPayload(req, template, outcomes) ==
    IF req.method = "tools/list" THEN ToolsListResult(template)
    ELSE IF req.method = "tools/call"
    THEN IF outcomes = <<>> THEN ToolFailure(UnknownToolText)
         ELSE IF outcomes[1].ok THEN ToolSuccess(outcomes[1].v)
         ELSE ToolFailure(outcomes[1].e)
    ELSE MethodNotFoundPayload

ExpectedLine(req, template, outcomes) ==
    IF req.method \in {"tools/list", "tools/call"}
    THEN JObj([jsonrpc |-> JStr("2.0"), id |-> req.id.v,
               result |-> ExpectedPayload(req, template, outcomes)])
    ELSE JObj([jsonrpc |-> JStr("2.0"), id |-> req.id.v,
               error |-> ExpectedPayload(req, template, outcomes).f.error])

OutcomesFor(k) ==
    LET at == {i \in 1..Len(calls) : calls[i].ln = k}
    IN IF at = {} THEN <<>> ELSE <<calls[CHOOSE i \in at : TRUE].outcome>>

C15_OnlyInitializeChangesConfig ==
    [][/\ CONFIG' # CONFIG => (InFlight /\ request.v.method = "initialize")
       /\ (stdout' # stdout /\ request.v.method # "initialize") =>
             stdout' = Append(stdout, [ln |-> nread, obj |->
                 ExpectedLine(request.v, CONFIG.commit_format, OutcomesFor(nread))])]_vars

C15_Witness ==
    /\ Handled /\ pc = "read" /\ nread = 2
    /\ supplied[1] = Some("Y") /\ CONFIG.commit_format = "Y"
    /\ CallsTool(line, {"get_staged_diff"}) /\ HasValueId(line)
    /\ Invocations(2) # {} /\ Answers(2) # {}

\* C16: the configuration is written, and read into a tool catalog, only with
\* the configuration lock held; the lock is taken only in the handling of
\* initialize and of tools/list, only when it is free, and it is free again
\* when the response is written, when the next line is read and when the
\* program ends, so a handler that is about to take it never waits.
LockHolders == {"initialize_locked", "tools_list_locked"}

C16_ConfigurationLockDiscipline ==
    [][/\ config_lock <=> pc \in LockHolders
       /\ config_lock' <=> pc' \in LockHolders
       /\ CONFIG' # CONFIG => config_lock
       /\ (InFlight /\ request.v.method = "tools/list" /\ response_payload' # response_payload)
             => config_lock
       /\ config_lock' /\ ~config_lock =>
             (pc = "dispatch" /\ request.v.method \in {"initialize", "tools/list"})
       /\ pc = "dispatch" => ~config_lock
       /\ (stdout' # stdout \/ nread' # nread \/ pc' = "exit") => (~config_lock /\ ~config_lock')
      ]_vars

C16_Witness ==
    /\ Handled /\ pc = "read" /\ nread = 2 /\ ~config_lock
    /\ supplied[1] = Some("X") /\ CONFIG.commit_format = "X"
    /\ MethodIs(line, "tools/list") /\ HasValueId(line) /\ Answers(2) # {}

\* C17 (as stated): on a finite input whose collaborator calls all return, main
\* ends at the end of input with success: unless a write to stdout failed, a
\* run that has ended has returned Ok(()) from the read that found no more
\* lines.
C17_FiniteInputEndsWithSuccess ==
    (pc = "exit" /\ exit_result # "Err(io)") => (exit_result = "Ok" /\ ~config_lock)

\* The effects of the line read last have been performed: the override of an
\* initialize is the template, and a tools/call naming one of the two tools
\* made its one collaborator call (the commit with the message of the line).
EffectsPerformed ==
    /\ (MethodIs(line, "initialize") /\ FormatIn(line).some) =>
          CONFIG.commit_format = FormatIn(line).v
    /\ CallsTool(line, {"get_staged_diff"}) =>
          /\ Cardinality(Invocations(nread)) = 1
          /\ \A c \in Invocations(nread) : calls[c].fn = "get_staged_diff"
    /\ CallsTool(line, {"execute_commit"}) =>
          /\ Cardinality(Invocations(nread)) = 1
          /\ \A c \in Invocations(nread) :
                /\ calls[c].fn = "commit"
                /\ calls[c].message = MessageOf(line)
                /\ calls[c].outcome \in {Ok("Commit successful: " \o CommitId),
                                         Err(RepoError), Err(CommitError)}

\* C18: a request without an id member has the effects of its method: an
\* initialize with a string commitFormat overwrites the template and a
\* tools/call naming get_staged_diff or execute_commit invokes the
\* collaborator; only the response line is missing.
C18_EffectsWithoutId ==
    (Handled /\ WellFormed(line) /\ ~HasId(line)) =>
        (EffectsPerformed /\ Answers(nread) = {})

C18_Witness ==
    /\ Handled /\ pc = "read" /\ nread = 2
    /\ MethodIs(line, "initialize") /\ ~HasId(line)
    /\ FormatIn(line) = Some("Y") /\ supplied[1] = Some("X")
    /\ CONFIG.commit_format = "Y"
    /\ Answers(2) = {}

\* C19: a request whose id member is null is decoded with no id, so it is
\* handled as one without an id member: no response line is written for it
\* whatever its method (an unknown method gets no error), and its effects are
\* performed.
C19_NullIdIsNoId ==
    (nread > 0 /\ WellFormed(line) /\ HasId(line) /\ line.f.id = JNull) =>
        /\ request # None /\ request.v.id = None
        /\ Answers(nread) = {}
        /\ Handled => EffectsPerformed

C19_Witness ==
    /\ Handled /\ pc = "read"
    /\ UnknownMethod(line) /\ HasId(line) /\ line.f.id = JNull
    /\ Answers(nread) = {}

====
